---------------------------- MODULE Spec2Model ----------------------------
(***************************************************************************)
(* Genre resolution of dj-tagger (src/djtagger/genres.py): the bounded     *)
(* Beatport cache, the mix / remix text helpers, the scoring of Beatport   *)
(* results, the Beatport and Last.fm lookups and the cascade               *)
(* resolve_genres.                                                         *)
(*                                                                         *)
(* A Python str is a sequence of one-character strings.  The only          *)
(* whitespace character of the model's alphabet is the space, and no       *)
(* string holds a line break, so "$" is the end of the string and "."      *)
(* matches every character.                                                *)
(***************************************************************************)
EXTENDS Integers, Sequences, FiniteSets, TLC

\* ------------------------------------------------------------------------
\* str primitives
\* ------------------------------------------------------------------------

UpperLetters ==
    <<"A","B","C","D","E","F","G","H","I","J","K","L","M",
      "N","O","P","Q","R","S","T","U","V","W","X","Y","Z">>

LowerLetters ==
    <<"a","b","c","d","e","f","g","h","i","j","k","l","m",
      "n","o","p","q","r","s","t","u","v","w","x","y","z">>

Digits == {"0","1","2","3","4","5","6","7","8","9"}

Range(f) == {f[i] : i \in DOMAIN f}

\* the sequence f itself, held as a tuple of its elements and not as the
\* rule [i \in 1..n |-> e] that computes them anew at every f[i]
Tuple(f) == <<>> \o f

\* str.lower() on one character
LowerChar(c) ==
    IF \E i \in DOMAIN UpperLetters : UpperLetters[i] = c
    THEN LowerLetters[CHOOSE i \in DOMAIN UpperLetters : UpperLetters[i] = c]
    ELSE c

\* str.upper() on one character
UpperChar(c) ==
    IF \E i \in DOMAIN LowerLetters : LowerLetters[i] = c
    THEN UpperLetters[CHOOSE i \in DOMAIN LowerLetters : LowerLetters[i] = c]
    ELSE c

\* str.lower()
Lower(s) == Tuple([i \in 1..Len(s) |-> LowerChar(s[i])])

\* \s of the re module
IsSpace(c) == c = " "

Letters == Range(UpperLetters) \cup Range(LowerLetters)

\* [a-zA-Z0-9_]
WordChars == Letters \cup Digits \cup {"_"}

\* \w of the re module
IsWordChar(c) == c \in WordChars

\* the first index >= p of s that holds no whitespace; Len(s) + 1 if none
RECURSIVE SkipSpaces(_, _)
SkipSpaces(s, p) ==
    IF p <= Len(s) /\ IsSpace(s[p]) THEN SkipSpaces(s, p + 1) ELSE p

\* the last index <= p of s that holds no whitespace; 0 if none
RECURSIVE SkipSpacesBack(_, _)
SkipSpacesBack(s, p) ==
    IF p >= 1 /\ IsSpace(s[p]) THEN SkipSpacesBack(s, p - 1) ELSE p

\* str.strip()
Strip(s) ==
    LET a == SkipSpaces(s, 1)
        b == SkipSpacesBack(s, Len(s))
    IN  IF a > b THEN <<>> ELSE SubSeq(s, a, b)

\* s[p:].startswith(w), p counted from 1
StartsWithAt(s, p, w) ==
    /\ p >= 1
    /\ p + Len(w) - 1 <= Len(s)
    /\ \A i \in 1..Len(w) : s[p + i - 1] = w[i]

\* w in s
Contains(s, w) == \E p \in 1..(Len(s) - Len(w) + 1) : StartsWithAt(s, p, w)

\* the first index >= p of s that holds whitespace; Len(s) + 1 if none
RECURSIVE SkipWord(_, _)
SkipWord(s, p) ==
    IF p <= Len(s) /\ ~IsSpace(s[p]) THEN SkipWord(s, p + 1) ELSE p

\* str.split(): the whitespace-separated words of s[p:]
RECURSIVE SplitFrom(_, _)
SplitFrom(s, p) ==
    LET a == SkipSpaces(s, p)
        b == SkipWord(s, a)
    IN  IF a > Len(s) THEN <<>>
        ELSE <<SubSeq(s, a, b - 1)>> \o SplitFrom(s, b)

Split(s) == SplitFrom(s, 1)

\* the least number of the set S of positive numbers; 0 if S is empty
Least(S) == IF S = {} THEN 0 ELSE CHOOSE x \in S : \A y \in S : x <= y

\* \b of the re module at the gap before s[p]
WordBoundary(s, p) ==
    LET before == p - 1 >= 1 /\ p - 1 <= Len(s) /\ IsWordChar(s[p - 1])
        after  == p >= 1 /\ p <= Len(s) /\ IsWordChar(s[p])
    IN  before # after

\* the first alternative of alts (in order) that matches s at p between two
\* word boundaries, as an index of alts; 0 if none: \b(alt1|alt2|...)\b
FirstWordAlt(s, p, alts) ==
    IF WordBoundary(s, p)
    THEN Least({k \in DOMAIN alts : /\ StartsWithAt(s, p, alts[k])
                                    /\ WordBoundary(s, p + Len(alts[k]))})
    ELSE 0

\* re.sub(r"\b(alt1|alt2|...)\b", "", s) from index p on; no alternative is
\* empty
RECURSIVE SubWords(_, _, _)
SubWordsAt(s, p, alts, k) ==
    IF k > 0 THEN SubWords(s, p + Len(alts[k]), alts)
    ELSE <<s[p]>> \o SubWords(s, p + 1, alts)

SubWords(s, p, alts) ==
    IF p > Len(s) THEN <<>>
    ELSE SubWordsAt(s, p, alts, FirstWordAlt(s, p, alts))

\* re.sub(r"\s+", " ", s) from index p on
RECURSIVE CollapseSpaces(_, _)
CollapseSpaces(s, p) ==
    IF p > Len(s) THEN <<>>
    ELSE IF IsSpace(s[p]) THEN <<" ">> \o CollapseSpaces(s, SkipSpaces(s, p))
    ELSE <<s[p]>> \o CollapseSpaces(s, p + 1)

\* re.sub(r"\s*&\s*", " ", s) from index p on
RECURSIVE SubAmpersand(_, _)
SubAmpersand(s, p) ==
    IF p > Len(s) THEN <<>>
    ELSE LET q == SkipSpaces(s, p)
         IN  IF q <= Len(s) /\ s[q] = "&"
             THEN <<" ">> \o SubAmpersand(s, SkipSpaces(s, q + 1))
             ELSE <<s[p]>> \o SubAmpersand(s, p + 1)

\* ------------------------------------------------------------------------
\* Mix / remix helpers
\* ------------------------------------------------------------------------

\* the first index >= p of s that holds c; 0 if none
RECURSIVE FindChar(_, _, _)
FindChar(s, p, c) ==
    IF p > Len(s) THEN 0
    ELSE IF s[p] = c THEN p
    ELSE FindChar(s, p + 1, c)

\* remix|mix|edit|dub|rework|bootleg|version|vip
MixKeywords ==
    << <<"r","e","m","i","x">>, <<"m","i","x">>, <<"e","d","i","t">>, <<"d","u","b">>,
       <<"r","e","w","o","r","k">>, <<"b","o","o","t","l","e","g">>,
       <<"v","e","r","s","i","o","n">>, <<"v","i","p">> >>

\* \(([^)]*(?:remix|mix|...)[^)]*)\) with re.IGNORECASE matches s at i: the
\* group runs to the first ")" after i and holds a keyword
MixGroupAt(s, i) ==
    /\ s[i] = "("
    /\ LET j == FindChar(s, i + 1, ")")
       IN  /\ j > 0
           /\ \E k \in DOMAIN MixKeywords :
                  Contains(Lower(SubSeq(s, i + 1, j - 1)), MixKeywords[k])

\* re.sub(r"\s*\(.*?\)\s*", " ", s) from index p on
RECURSIVE SubParens(_, _)
SubParens(s, p) ==
    IF p > Len(s) THEN <<>>
    ELSE LET q == SkipSpaces(s, p)
             j == IF q <= Len(s) /\ s[q] = "(" THEN FindChar(s, q + 1, ")")
                  ELSE 0
         IN  IF j > 0 THEN <<" ">> \o SubParens(s, SkipSpaces(s, j + 1))
             ELSE <<s[p]>> \o SubParens(s, p + 1)

\* group(1) of the match of _extract_mix_info at i, stripped; "" for no
\* match (i = 0)
MixGroup(title, i) ==
    IF i = 0 THEN <<>>
    ELSE Strip(SubSeq(title, i + 1, FindChar(title, i + 1, ")") - 1))

\* _extract_mix_info(title): (base_title, mix_info)
_extract_mix_info(title) ==
    [base_title |-> Strip(SubParens(title, 1)),
     mix_info   |-> MixGroup(title,
                             Least({i \in 1..Len(title) :
                                       MixGroupAt(title, i)}))]

\* extended|original|radio
FillerWords ==
    << <<"e","x","t","e","n","d","e","d">>,
       <<"o","r","i","g","i","n","a","l">>,
       <<"r","a","d","i","o">> >>

\* remix|mix|edit|dub|rework
MixSuffixes ==
    << <<"r","e","m","i","x">>, <<"m","i","x">>, <<"e","d","i","t">>, <<"d","u","b">>,
       <<"r","e","w","o","r","k">> >>

\* \s*(remix|mix|edit|dub|rework)\s*$ matches s at p
MixSuffixAt(s, p) ==
    LET q == SkipSpaces(s, p)
    IN  \E k \in DOMAIN MixSuffixes :
            /\ StartsWithAt(s, q, MixSuffixes[k])
            /\ SkipSpaces(s, q + Len(MixSuffixes[k])) = Len(s) + 1

\* re.sub(r"\s*(remix|mix|edit|dub|rework)\s*$", "", s): the leftmost match
\* runs to the end of s, and nothing matches after it
CutAt(s, p) == IF p = 0 THEN s ELSE SubSeq(s, 1, p - 1)

SubMixSuffix(s) == CutAt(s, Least({p \in 1..Len(s) : MixSuffixAt(s, p)}))

\* _normalize_mix(mix_str): lowercase, strip filler words
_normalize_mix(mix_str) ==
    LET s1 == Lower(mix_str)
        s2 == Strip(SubWords(s1, 1, FillerWords))
        s3 == Strip(SubMixSuffix(s2))
        s4 == SubAmpersand(s3, 1)
        s5 == Strip(CollapseSpaces(s4, 1))
    IN  s5

\* the tuple of _is_generic_mix
GenericMixes ==
    { <<>>,
      <<"o","r","i","g","i","n","a","l"," ","m","i","x">>,
      <<"e","x","t","e","n","d","e","d"," ","m","i","x">>,
      <<"r","a","d","i","o"," ","e","d","i","t">>,
      <<"r","a","d","i","o"," ","m","i","x">>,
      <<"e","x","t","e","n","d","e","d">>,
      <<"o","r","i","g","i","n","a","l">>,
      <<"c","l","u","b"," ","m","i","x">>,
      <<"e","x","t","e","n","d","e","d"," ","c","l","u","b"," ","m","i","x">> }

\* faulty variant of _is_generic_mix: the normalized name is looked up
_is_generic_mixNormalized(mix_str) == _normalize_mix(mix_str) \in GenericMixes

\* _is_generic_mix(mix_str)
_is_generic_mix(mix_str) == Strip(Lower(mix_str)) \in GenericMixes

\* feat\.?|ft\.?|featuring|the|a|an|of|in|on|at|to|for|and|vs\.? : each
\* alternative in the pattern's order, an optional "." first with it (greedy)
StopWords ==
    << <<"f","e","a","t",".">>, <<"f","e","a","t">>, <<"f","t",".">>, <<"f","t">>,
       <<"f","e","a","t","u","r","i","n","g">>,
       <<"t","h","e">>, <<"a">>, <<"a","n">>, <<"o","f">>, <<"i","n">>,
       <<"o","n">>, <<"a","t">>, <<"t","o">>, <<"f","o","r">>,
       <<"a","n","d">>, <<"v","s",".">>, <<"v","s">> >>

\* _remix_words(mix_str): the meaningful words of a remix name
LongWords(ws) == {ws[i] : i \in {j \in DOMAIN ws : Len(ws[j]) > 1}}

_remix_words(mix_str) ==
    LongWords(Split(SubWords(_normalize_mix(mix_str), 1, StopWords)))


\* ------------------------------------------------------------------------
\* Beatport scoring
\* ------------------------------------------------------------------------

\* re.split(r"\s*[&,]\s*", s) from index p on, cur the part being read
RECURSIVE SplitArtists(_, _, _)
SplitArtists(s, p, cur) ==
    IF p > Len(s) THEN <<cur>>
    ELSE LET q == SkipSpaces(s, p)
         IN  IF q <= Len(s) /\ s[q] \in {"&", ","}
             THEN <<cur>> \o SplitArtists(s, SkipSpaces(s, q + 1), <<>>)
             ELSE SplitArtists(s, p + 1, Append(cur, s[p]))

\* the track name signal (lines 109-114)
TitleScore(base_title_lower, track_name) ==
    LET ws == Split(base_title_lower)
    IN  IF Contains(track_name, base_title_lower)
           \/ Contains(base_title_lower, track_name)
        THEN 10
        ELSE IF \E i \in DOMAIN ws : Len(ws[i]) > 2 /\ Contains(track_name, ws[i])
        THEN 3
        ELSE -10

\* faulty variant of ArtistScore: the whole artist alone, no parts
ArtistScoreWhole(artist_lower, item_artists) ==
    IF \E i \in DOMAIN item_artists :
           /\ item_artists[i] # <<>>
           /\ \/ Contains(artist_lower, item_artists[i])
              \/ Contains(item_artists[i], artist_lower)
    THEN 5 ELSE 0

\* the artist signal (lines 117-123)
ArtistScore(artist_lower, item_artists) ==
    LET named == {i \in DOMAIN item_artists : item_artists[i] # <<>>}
        whole == \E i \in named : \/ Contains(artist_lower, item_artists[i])
                                  \/ Contains(item_artists[i], artist_lower)
        parts == SplitArtists(artist_lower, 1, <<>>)
        hit(part) == /\ part # <<>>
                     /\ \E i \in named : \/ Contains(item_artists[i], part)
                                         \/ Contains(part, item_artists[i])
    IN  (IF whole THEN 5 ELSE 0)
        + 2 * Cardinality({k \in DOMAIN parts : hit(Strip(parts[k]))})

\* faulty variant of MixMatch: -20 for any two unequal mixes without a
\* common word, those without words included
MixMatchStrict(file_mix_norm, bp_mix_norm, file_words, bp_words) ==
    IF file_mix_norm # <<>> /\ bp_mix_norm # <<>>
       /\ file_mix_norm = bp_mix_norm
    THEN 25
    ELSE IF file_mix_norm # <<>> /\ bp_mix_norm # <<>>
    THEN IF file_words \cap bp_words # {}
         THEN 15 + Cardinality(file_words \cap bp_words) * 3
         ELSE -20
    ELSE 0

\* lines 130-141: the normalized mixes and the words of both
MixMatch(file_mix_norm, bp_mix_norm, file_words, bp_words) ==
    IF file_mix_norm # <<>> /\ bp_mix_norm # <<>>
       /\ file_mix_norm = bp_mix_norm
    THEN 25
    ELSE IF file_mix_norm # <<>> /\ bp_mix_norm # <<>>
    THEN IF file_words # {} /\ bp_words # {}
         THEN IF file_words \cap bp_words # {}
              THEN 15 + Cardinality(file_words \cap bp_words) * 3
              ELSE -20
         ELSE 0
    ELSE 0

\* lines 143-144
GenericPenalty(file_mix_info, mix_name) ==
    IF ~_is_generic_mix(file_mix_info) /\ _is_generic_mix(mix_name) THEN -15
    ELSE 0

\* the mix signal (lines 126-148)
MixScore(file_mix_info, mix_name) ==
    IF file_mix_info # <<>>
    THEN MixMatch(_normalize_mix(file_mix_info), _normalize_mix(mix_name),
                  _remix_words(file_mix_info), _remix_words(mix_name))
         + GenericPenalty(file_mix_info, mix_name)
    ELSE IF _is_generic_mix(mix_name) THEN 3
    ELSE 0

\* _score_beatport_result(item, artist_lower, base_title_lower, file_mix_info)
\* for an item whose fields have the expected types
_score_beatport_result(item, artist_lower, base_title_lower, file_mix_info) ==
    LET track_name   == Lower(item.track_name)
        mix_name     == item.mix_name
        item_artists ==
            Tuple([i \in DOMAIN item.artists |-> Lower(item.artists[i])])
    IN  TitleScore(base_title_lower, track_name)
        + ArtistScore(artist_lower, item_artists)
        + MixScore(file_mix_info, mix_name)

\* ------------------------------------------------------------------------
\* Beatport cache (bounded LRU)
\* ------------------------------------------------------------------------

\* _BEATPORT_CACHE_MAX, scaled down from the 500 of line 20: __setitem__
\* compares len(self) with it and reads it nowhere else
_BEATPORT_CACHE_MAX == 2

\* An OrderedDict is the sequence of its (key, value) entries, oldest first.
Keys(c) == {c[i].key : i \in DOMAIN c}

IndexOf(c, key) == CHOOSE i \in DOMAIN c : c[i].key = key

\* dict.__getitem__: OrderedDict does not override it, the order is kept
__getitem__(c, key) == c[IndexOf(c, key)].value

\* OrderedDict.move_to_end(key)
move_to_end(c, key) ==
    LET i == IndexOf(c, key)
    IN  SubSeq(c, 1, i - 1) \o SubSeq(c, i + 1, Len(c)) \o <<c[i]>>

\* OrderedDict.__setitem__: a present key keeps its place, a new one is last
OrderedDict__setitem__(c, key, value) ==
    IF key \in Keys(c) THEN [c EXCEPT ![IndexOf(c, key)].value = value]
    ELSE Append(c, [key |-> key, value |-> value])

\* OrderedDict.popitem(last=False)
popitem_first(c) == Tail(c)

\* faulty variant of __setitem__: room is made before the write whenever the
\* cache is full, also where the key is already held
__setitem__EvictsFirst(c, key, value) ==
    IF Len(c) >= _BEATPORT_CACHE_MAX
    THEN Append(SelectSeq(popitem_first(c), LAMBDA e : e.key # key),
                [key |-> key, value |-> value])
    ELSE Append(SelectSeq(c, LAMBDA e : e.key # key),
                [key |-> key, value |-> value])

\* _BoundedCache.__setitem__(key, value)
__setitem__(c, key, value) ==
    LET moved == IF key \in Keys(c) THEN move_to_end(c, key) ELSE c
        set   == OrderedDict__setitem__(moved, key, value)
    IN  IF Len(set) > _BEATPORT_CACHE_MAX THEN popitem_first(set) ELSE set


\* ------------------------------------------------------------------------
\* Beatport lookup
\* ------------------------------------------------------------------------

\* s[:n]
Take(s, n) == SubSeq(s, 1, IF Len(s) < n THEN Len(s) ELSE n)

\* BEATPORT_RESULTS: items[:10] of line 220
BEATPORT_RESULTS == 10

\* faulty variant of CacheKey: the key not lowered
CacheKeyCaseSensitive(artist, title) == artist \o <<"|">> \o title

\* cache_key of line 161
CacheKey(artist, title) == Lower(artist \o <<"|">> \o title)

\* query of lines 169-173, info what _extract_mix_info gave for the title
QueryOf(artist_search, info) ==
    IF info.mix_info # <<>> /\ ~_is_generic_mix(info.mix_info)
    THEN Strip(artist_search \o <<" ">> \o info.base_title \o <<" ">>
               \o _normalize_mix(info.mix_info))
    ELSE Strip(artist_search \o <<" ">> \o info.base_title)

\* query of lines 165-173
Query(artist, title) ==
    QueryOf(Strip(SubAmpersand(artist, 1)), _extract_mix_info(title))

\* faulty variant of Scored: every item scored, not items[:10]
ScoredAll(items, artist, info) ==
    Tuple([i \in DOMAIN items |->
              _score_beatport_result(items[i], Lower(artist),
                                     Lower(info.base_title), info.mix_info)])

\* the scores of items[:10] (lines 219-224), info what _extract_mix_info
\* gave for the title
Scored(items, artist, info) ==
    Tuple([i \in DOMAIN Take(items, BEATPORT_RESULTS) |->
              _score_beatport_result(items[i], Lower(artist),
                                     Lower(info.base_title), info.mix_info)])

\* scored.sort(key=lambda x: -x[0]); scored[0] (lines 225-227): the sort is
\* stable, so the first of the highest scores comes first
BestIndex(scored) ==
    CHOOSE i \in DOMAIN scored :
        /\ \A j \in DOMAIN scored : scored[j] <= scored[i]
        /\ \A j \in 1..(i - 1) : scored[j] < scored[i]

\* the loop of lines 234-237 from entry i on: an entry that is no dict makes
\* g.get raise, the names appended before it stay in genres
RECURSIVE GenreLoop(_, _, _)
GenreLoop(entries, i, genres) ==
    IF i > Len(entries) THEN [exit |-> "end", genres |-> genres]
    ELSE IF ~entries[i].ok THEN [exit |-> "raise", genres |-> genres]
    ELSE GenreLoop(entries, i + 1,
                   IF entries[i].genre_name # <<>>
                   THEN Append(genres, entries[i].genre_name)
                   ELSE genres)

\* how the try body leaves without a genre and without a warning
Quiet(exit) == [exit |-> exit, genres |-> <<>>, warned |-> FALSE]

\* faulty variant of PickBest: no rejection of a poor match
PickBestUnrejected(items, scored, best, info) ==
    GenreLoop(items[best].genre, 1, <<>>) @@ [warned |-> FALSE]

\* lines 227-237: the best of the scored items, the rejection of a poor
\* match for a specific remix, the genre names of the best
PickBest(items, scored, best, info) ==
    IF /\ info.mix_info # <<>>
       /\ ~_is_generic_mix(info.mix_info)
       /\ scored[best] < 10
    THEN Quiet("return")
    ELSE GenreLoop(items[best].genre, 1, <<>>) @@ [warned |-> FALSE]

\* lines 211-237: the result list items; an item whose fields have not the
\* expected types makes _score_beatport_result raise
ScoreItems(items, scored, info) ==
    IF items = <<>> THEN Quiet("return")
    ELSE IF \E i \in DOMAIN Take(items, BEATPORT_RESULTS) : ~items[i].ok
    THEN Quiet("raise")
    ELSE PickBest(items, scored, BestIndex(scored), info)

\* the try body of get_beatport_genre on a cache miss (lines 176-237), resp
\* what the request came to and info what _extract_mix_info gave.  exit is
\* "return" where the body caches [] and returns [], "raise" where an
\* exception leaves it and "end" where it runs to its end; warned says
\* whether line 204 printed the structure warning.
BeatportTry(artist, info, resp) ==
    CASE resp.kind = "timeout"     -> Quiet("raise")
      [] resp.kind = "curl_failed" -> Quiet("return")
      [] resp.kind = "no_script"   -> Quiet("return")
      [] resp.kind = "bad_json"    -> Quiet("raise")
      [] resp.kind = "bad_path"    ->
             [exit |-> "return", genres |-> <<>>, warned |-> TRUE]
      [] resp.kind = "items"       ->
             ScoreItems(resp.items, Scored(resp.items, artist, info), info)

\* faulty variant of BeatportExcept: no handler, the exception leaves
BeatportNoExcept(r) == r

\* except subprocess.TimeoutExpired: pass / except Exception: pass (lines
\* 239-242): whatever the try body raised, the function goes on to line 244
BeatportExcept(r) == IF r.exit = "raise" THEN [r EXCEPT !.exit = "end"] ELSE r

\* faulty variant of MissValue: genres returned whole, not genres[:3]
MissValueUncut(r) == IF r.exit = "return" THEN <<>> ELSE r.genres

\* the value of a cache miss: [] where the try body returned, genres[:3]
\* where it ran to line 244
MissValue(r) == IF r.exit = "return" THEN <<>> ELSE Take(r.genres, 3)

\* lines 165-245, a cache miss: the request, and r how the try body and its
\* handlers left
Miss(c, cache_key, query, r) ==
    IF r.exit = "raise"
    THEN [cache |-> c, ret |-> <<>>, hit |-> FALSE, requests |-> <<query>>,
          warned |-> r.warned, raised |-> TRUE]
    ELSE [cache |-> __setitem__(c, cache_key, MissValue(r)),
          ret |-> MissValue(r), hit |-> FALSE, requests |-> <<query>>,
          warned |-> r.warned, raised |-> FALSE]

\* get_beatport_genre(artist, title) on the cache c.  The result holds the
\* cache after the call, the value returned, the queries sent, whether the
\* structure warning was printed and whether an exception left the function.
get_beatport_genre(c, artist, title, resp) ==
    IF CacheKey(artist, title) \in Keys(c)
    THEN [cache |-> c, ret |-> __getitem__(c, CacheKey(artist, title)),
          hit |-> TRUE, requests |-> <<>>, warned |-> FALSE,
          raised |-> FALSE]
    ELSE Miss(c, CacheKey(artist, title), Query(artist, title),
              BeatportExcept(
                  BeatportTry(artist, _extract_mix_info(title), resp)))

\* ------------------------------------------------------------------------
\* Last.fm lookup
\* ------------------------------------------------------------------------

\* LASTFM_MIN_COUNT of config.py
LASTFM_MIN_COUNT == 20

IsLetter(c) == c \in Letters

\* str.title(): a letter that follows no letter is upper case, one that
\* follows a letter is lower case
Title(s) ==
    Tuple([i \in 1..Len(s) |->
              IF i > 1 /\ IsLetter(s[i - 1]) THEN LowerChar(s[i])
              ELSE UpperChar(s[i])])

\* the list comprehension of lines 290-294
Qualifying(tags) ==
    SelectSeq(Take(tags, 3), LAMBDA x : x.count > LASTFM_MIN_COUNT)

TagGenres(tags) ==
    Tuple([i \in DOMAIN Qualifying(tags) |-> Title(Qualifying(tags)[i].name)])

\* lines 290-296: genres is bound; the loop ends if it is not empty
Bound(genres) ==
    [exit |-> IF genres # <<>> THEN "break" ELSE "end", assigned |-> TRUE,
     genres |-> genres]

\* how a turn of the loop leaves without binding genres
Unbound(exit) == [exit |-> exit, assigned |-> FALSE, genres |-> <<>>]

\* the try body of one turn of the loop of get_lastfm_genre (lines 273-296),
\* resp what the request came to.  exit is "continue", "break", "raise" or
\* "end"; assigned says whether line 290 bound genres.  A tag whose count is
\* no number makes int() raise.
LastfmTry(resp) ==
    CASE resp.kind = "timeout"     -> Unbound("raise")
      [] resp.kind = "curl_failed" -> Unbound("continue")
      [] resp.kind = "bad_json"    -> Unbound("raise")
      [] resp.kind = "no_tags"     -> Unbound("end")
      [] resp.kind = "tags"        ->
             IF \E i \in DOMAIN Take(resp.tags, 3) : ~resp.tags[i].ok
             THEN Unbound("raise")
             ELSE Bound(TagGenres(resp.tags))

\* except Exception: pass (lines 297-298)
LastfmExcept(r) == IF r.exit = "raise" THEN [r EXCEPT !.exit = "end"] ELSE r

\* the loop of lines 269-298 from variant i on; st holds genres, the artists
\* requested so far and whether an exception left the loop
RECURSIVE LastfmLoop(_, _, _, _)
LastfmTurn(arts, resps, i, r, s2) ==
    IF r.exit \in {"raise", "break"} THEN s2
    ELSE LastfmLoop(arts, resps, i + 1, s2)

LastfmAfter(st, art, r) ==
    [genres   |-> IF r.assigned THEN r.genres ELSE st.genres,
     requests |-> Append(st.requests, art),
     raised   |-> r.exit = "raise"]

LastfmRequest(arts, resps, i, st, r) ==
    LastfmTurn(arts, resps, i, r, LastfmAfter(st, arts[i], r))

LastfmLoop(arts, resps, i, st) ==
    IF i > Len(arts) THEN st
    ELSE IF arts[i] = <<>> THEN LastfmLoop(arts, resps, i + 1, st)
    ELSE LastfmRequest(arts, resps, i, st, LastfmExcept(LastfmTry(resps[i])))

\* lines 268-299: st what the loop came to
LastfmReturn(warned, st) ==
    [warned |-> warned, ret |-> IF st.raised THEN <<>> ELSE st.genres,
     requests |-> st.requests, printed |-> FALSE, raised |-> st.raised]

\* faulty variant of get_lastfm_genre: the warning printed whether or not
\* _lastfm_warned is set
get_lastfm_genreWarnsAlways(api_key, warned, artist, artist_clean, resps) ==
    IF api_key = <<>>
    THEN [warned |-> TRUE, ret |-> <<>>, requests |-> <<>>,
          printed |-> TRUE, raised |-> FALSE]
    ELSE LastfmReturn(warned,
                      LastfmLoop(<<artist_clean, artist>>, resps, 1,
                                 [genres |-> <<>>, requests |-> <<>>,
                                  raised |-> FALSE]))

\* get_lastfm_genre(artist, artist_clean, title) with the API key api_key and
\* the flag _lastfm_warned = warned.  The result holds the flag after the
\* call, the value returned, the artists requested, whether line 260 printed
\* the warning and whether an exception left the function.
get_lastfm_genre(api_key, warned, artist, artist_clean, resps) ==
    IF api_key = <<>>
    THEN [warned |-> TRUE, ret |-> <<>>, requests |-> <<>>,
          printed |-> ~warned, raised |-> FALSE]
    ELSE LastfmReturn(warned,
                      LastfmLoop(<<artist_clean, artist>>, resps, 1,
                                 [genres |-> <<>>, requests |-> <<>>,
                                  raised |-> FALSE]))

\* ------------------------------------------------------------------------
\* Resolve genre from all sources
\* ------------------------------------------------------------------------

\* faulty variant of Kept: ml_genres not cut to its first three
KeptUncut(ml_genres, genre_keep_prob) ==
    SelectSeq(ml_genres, LAMBDA g : g.prob >= genre_keep_prob)

\* faulty variant of Kept: > for >=, a label at the threshold is dropped
KeptAbove(ml_genres, genre_keep_prob) ==
    SelectSeq(Take(ml_genres, 3), LAMBDA g : g.prob > genre_keep_prob)

\* ml_genres[:3] filtered by the threshold (line 321)
Kept(ml_genres, genre_keep_prob) ==
    SelectSeq(Take(ml_genres, 3), LAMBDA g : g.prob >= genre_keep_prob)

Labels(kept) == Tuple([i \in DOMAIN kept |-> kept[i].label])

\* ml_list of line 321
MlList(ml_genres, genre_keep_prob) == Labels(Kept(ml_genres, genre_keep_prob))

\* faulty variant of Merge: the labels compared without .lower()
RECURSIVE MergeCaseSensitive(_, _, _)
MergeCaseSensitive(final, ml_list, i) ==
    IF i > Len(ml_list) THEN final
    ELSE MergeCaseSensitive(IF \E k \in DOMAIN final : final[k] = ml_list[i]
                            THEN final
                            ELSE Append(final, ml_list[i]),
                            ml_list, i + 1)

\* the loop of lines 328-330 from ml_list[i] on
RECURSIVE Merge(_, _, _)
Merge(final, ml_list, i) ==
    IF i > Len(ml_list) THEN final
    ELSE Merge(IF \E k \in DOMAIN final : Lower(final[k]) = Lower(ml_list[i])
               THEN final
               ELSE Append(final, ml_list[i]),
               ml_list, i + 1)

\* what get_beatport_genre is when resolve_genres does not call it
NoBeatport(c) ==
    [cache |-> c, ret |-> <<>>, hit |-> FALSE, requests |-> <<>>,
     warned |-> FALSE, raised |-> FALSE]

\* what get_lastfm_genre is when resolve_genres does not reach it
NoLastfm(warned) ==
    [warned |-> warned, ret |-> <<>>, requests |-> <<>>, printed |-> FALSE,
     raised |-> FALSE]

\* faulty variant of Priority: Last.fm asked before Beatport
PriorityLastfmFirst(bp_genres, fm_genres, ml_list) ==
    IF fm_genres # <<>>
    THEN [genres |-> Merge(fm_genres, ml_list, 1), source |-> "lastfm+ml"]
    ELSE IF bp_genres # <<>>
    THEN [genres |-> bp_genres, source |-> "beatport"]
    ELSE [genres |-> ml_list, source |-> "ml"]

\* faulty variant of Priority: no test of fm_genres, the merge is what is
\* returned whenever Beatport gave nothing
PriorityNoMlBranch(bp_genres, fm_genres, ml_list) ==
    IF bp_genres # <<>> THEN [genres |-> bp_genres, source |-> "beatport"]
    ELSE [genres |-> Merge(fm_genres, ml_list, 1), source |-> "lastfm+ml"]

\* lines 323-333: the priority of the sources
Priority(bp_genres, fm_genres, ml_list) ==
    IF bp_genres # <<>> THEN [genres |-> bp_genres, source |-> "beatport"]
    ELSE IF fm_genres # <<>>
    THEN [genres |-> Merge(fm_genres, ml_list, 1), source |-> "lastfm+ml"]
    ELSE [genres |-> ml_list, source |-> "ml"]

\* what resolve_genres returns, or that it raised
Returned(bp, fm, ml_list, out) ==
    [bp |-> bp, fm |-> fm, ml_list |-> ml_list,
     raised |-> bp.raised \/ fm.raised,
     genres |-> IF bp.raised \/ fm.raised THEN <<>> ELSE out.genres,
     source |-> IF bp.raised \/ fm.raised THEN "raised" ELSE out.source]

\* lines 320-333, bp what get_beatport_genre came to and fm what
\* get_lastfm_genre did
Cascade(bp, fm, ml_list) ==
    Returned(bp, fm, ml_list, Priority(bp.ret, fm.ret, ml_list))

\* faulty variant of AfterBeatport: get_lastfm_genre called only where
\* Beatport gave nothing
AfterBeatportLazy(bp, api_key, warned, t, fm_resps) ==
    Cascade(bp,
            IF bp.raised \/ bp.ret # <<>> THEN NoLastfm(warned)
            ELSE get_lastfm_genre(api_key, warned, t.artist, t.artist_clean,
                                  fm_resps),
            MlList(t.ml_genres, t.genre_keep_prob))

\* line 320, bp what get_beatport_genre came to
AfterBeatport(bp, api_key, warned, t, fm_resps) ==
    Cascade(bp,
            IF bp.raised THEN NoLastfm(warned)
            ELSE get_lastfm_genre(api_key, warned, t.artist, t.artist_clean,
                                  fm_resps),
            MlList(t.ml_genres, t.genre_keep_prob))

\* resolve_genres(artist, artist_clean, title, ml_genres, use_beatport,
\* genre_keep_prob) on the cache c, with the API key api_key and the flag
\* _lastfm_warned = warned; bp_resp and fm_resps are what the requests come
\* to.  t holds the arguments.
resolve_genres(c, api_key, warned, t, bp_resp, fm_resps) ==
    AfterBeatport(
        IF t.use_beatport
        THEN get_beatport_genre(
                 c, IF t.artist_clean # <<>> THEN t.artist_clean ELSE t.artist,
                 t.title, bp_resp)
        ELSE NoBeatport(c),
        api_key, warned, t, fm_resps)

\* ------------------------------------------------------------------------
\* The process: cli.py tags the files one after the other; for each it calls
\* resolve_genres once (cli.py lines 380-387) and then logs and writes what
\* it got (lines 392-411)
\* ------------------------------------------------------------------------

VARIABLES
    _beatport_cache,   \* the module's _BoundedCache (line 34)
    _lastfm_warned,    \* the module's flag (line 38)
    LASTFM_API_KEY,    \* config.py line 20, read from the environment
    use_beatport,      \* not no_beatport, the command line's flag
    recency,           \* the keys of the cache, the one read or written
                       \* longest ago first (kept by LruSpec only)
    structure_warned,  \* whether a call before the one in progress printed
                       \* the warning of line 204 (kept by WarnSpec only)
    last               \* the call that has just returned: its arguments,
                       \* the cache before it and what it came to

vars == <<_beatport_cache, _lastfm_warned, LASTFM_API_KEY, use_beatport,
          recency, structure_warned, last>>

\* GENRE_KEEP_PROB of config.py, in hundredths
GENRE_KEEP_PROB == 10

Genre(label, prob) == [label |-> label, prob |-> prob]

\* The files: what parse_filename gives for each (artist_clean is artist
\* without a country suffix) and what analyze_track gives for it, at most
\* five labels of probability >= GENRE_MIN_PROB, the likeliest first.
Files ==
    { [artist |-> <<"D","e","a","d","m","a","u","5">>, artist_clean |-> <<"D","e","a","d","m","a","u","5">>,
       title |-> <<"S","t","r","o","b","e">>,
       ml_genres |-> <<Genre(<<"H","o","u","s","e">>, 40), Genre(<<"T","e","c","h","n","o">>, 10),
                       Genre(<<"T","r","a","n","c","e">>, 9), Genre(<<"D","i","s","c","o">>, 7)>>],
      [artist |-> <<"D","E","A","D","M","A","U","5">>, artist_clean |-> <<"D","E","A","D","M","A","U","5">>,
       title |-> <<"s","t","r","o","b","e">>,
       ml_genres |-> <<Genre(<<"D","i","s","c","o">>, 50), Genre(<<"F","u","n","k">>, 30),
                       Genre(<<"S","o","u","l">>, 20), Genre(<<"P","o","p">>, 15)>>],
      [artist |-> <<"S","a","s","h","a"," ","(","U","K",")">>, artist_clean |-> <<"S","a","s","h","a">>,
       title |-> <<"X","p","a","n","d","e","r"," ","(","G","u","y"," ","J"," ","R","e","m","i","x",")">>,
       ml_genres |-> <<Genre(<<"h","o","u","s","e">>, 30), Genre(<<"T","E","C","H","N","O">>, 12)>>],
      [artist |-> <<>>, artist_clean |-> <<>>,
       title |-> <<"I","n","t","r","o"," ","(","E","x","t","e","n","d","e","d"," ","M","i","x",")">>,
       ml_genres |-> <<>>],
      [artist |-> <<"A"," ","&"," ","B">>, artist_clean |-> <<"A"," ","&"," ","B">>,
       title |-> <<"G","o"," ","(","C","l","u","b"," ","M","i","x"," ","E","d","i","t",")">>,
       ml_genres |-> <<Genre(<<"D","a","n","c","e">>, 9)>>] }

Entry(name) == [ok |-> TRUE, genre_name |-> name]

\* an entry of "genre" that is no dict
BadEntry == [ok |-> FALSE, genre_name |-> <<>>]

Item(track_name, mix_name, artists, genre) ==
    [ok |-> TRUE, track_name |-> track_name, mix_name |-> mix_name,
     artists |-> artists, genre |-> genre]

\* a result whose fields have not the expected types
BadItem ==
    [ok |-> FALSE, track_name |-> <<>>, mix_name |-> <<>>, artists |-> <<>>,
     genre |-> <<>>]

\* the result lists the search page may hold
ItemLists ==
    { <<>>,
      << Item(<<"S","t","r","o","b","e">>, <<"O","r","i","g","i","n","a","l"," ","M","i","x">>, <<<<"d","e","a","d","m","a","u","5">>>>,
              <<Entry(<<"P","r","o","g","r","e","s","s","i","v","e"," ","H","o","u","s","e">>), Entry(<<"E","l","e","c","t","r","o"," ","H","o","u","s","e">>),
                Entry(<<>>), Entry(<<"H","o","u","s","e">>), Entry(<<"T","e","c","h","n","o">>)>>) >>,
      << Item(<<"X","p","a","n","d","e","r">>, <<"O","r","i","g","i","n","a","l"," ","M","i","x">>, <<<<"S","a","s","h","a">>>>,
              <<Entry(<<"T","r","a","n","c","e">>), BadEntry, Entry(<<"H","o","u","s","e">>)>>),
         Item(<<"X","p","a","n","d","e","r">>, <<"G","u","y"," ","J"," ","R","e","m","i","x">>, <<<<"S","a","s","h","a">>, <<"G","u","y"," ","J">>>>,
              <<Entry(<<"P","r","o","g","r","e","s","s","i","v","e"," ","H","o","u","s","e">>)>>),
         Item(<<"G","o">>, <<"C","l","u","b"," ","M","i","x"," ","E","d","i","t">>, <<<<"A">>, <<"B">>>>, <<Entry(<<"D","a","n","c","e">>)>>) >>,
      << Item(<<"S","t","r","o","b","e">>, <<"O","r","i","g","i","n","a","l"," ","M","i","x">>, <<<<"d","e","a","d","m","a","u","5">>>>, <<Entry(<<"H","o","u","s","e">>)>>),
         BadItem >> }

BpResp(kind, items) == [kind |-> kind, items |-> items]

\* what a request to Beatport may come to
BeatportResponses ==
    {BpResp(k, <<>>) : k \in {"timeout", "curl_failed", "no_script",
                               "bad_json", "bad_path"}}
    \cup {BpResp("items", items) : items \in ItemLists}

\* no request, no response
NoResponse == BpResp("none", <<>>)

Tag(name, count) == [ok |-> TRUE, name |-> name, count |-> count]

\* a tag whose count is no number
BadTag == [ok |-> FALSE, name |-> <<>>, count |-> 0]

FmResp(kind, tags) == [kind |-> kind, tags |-> tags]

\* what the requests to Last.fm for artist_clean and for artist may come to
LastfmResponses ==
    { << FmResp("tags", <<Tag(<<"h","o","u","s","e">>, 100), Tag(<<"t","e","c","h"," ","h","o","u","s","e">>, 50),
                          Tag(<<"t","r","a","n","c","e">>, 30), Tag(<<"a","m","b","i","e","n","t">>, 25)>>),
         FmResp("curl_failed", <<>>) >>,
      << FmResp("curl_failed", <<>>),
         FmResp("tags", <<Tag(<<"e","l","e","c","t","r","o","n","i","c">>, 100), Tag(<<"s","e","e","n"," ","l","i","v","e">>, 20),
                          Tag(<<"d","a","n","c","e">>, 21), Tag(<<"h","o","u","s","e">>, 90)>>) >>,
      << FmResp("tags", <<Tag(<<"r","o","c","k">>, 5), Tag(<<"p","o","p">>, 3)>>),
         FmResp("timeout", <<>>) >>,
      << FmResp("bad_json", <<>>),
         FmResp("tags", <<Tag(<<"i","d","m">>, 40), BadTag>>) >>,
      << FmResp("no_tags", <<>>), FmResp("no_tags", <<>>) >> }

NoResponses == <<FmResp("none", <<>>), FmResp("none", <<>>)>>

Init ==
    /\ _beatport_cache = <<>>
    /\ _lastfm_warned = FALSE
    /\ LASTFM_API_KEY \in {<<>>, <<"k","e","y">>}
    /\ use_beatport \in BOOLEAN
    /\ recency = <<>>
    /\ structure_warned = FALSE
    /\ last = [op |-> "none"]

\* the artist resolve_genres looks up on Beatport: artist_clean or artist
\* (line 318)
BeatportArtist(f) ==
    IF f.artist_clean # <<>> THEN f.artist_clean ELSE f.artist

\* the key of that lookup
FileKey(f) == CacheKey(BeatportArtist(f), f.title)

\* the arguments cli.py lines 380-387 pass for the file f
Arguments(f) ==
    f @@ [use_beatport |-> use_beatport, genre_keep_prob |-> GENRE_KEEP_PROB]

\* One call of resolve_genres for the file f.  Beatport answers only if it
\* is asked (a cache miss with use_beatport), Last.fm only with an API key.
Resolve(f, bp_resp, fm_resps) ==
    /\ last.op = "none"
    /\ bp_resp = NoResponse
           <=> (~use_beatport \/ FileKey(f) \in Keys(_beatport_cache))
    /\ fm_resps = NoResponses <=> LASTFM_API_KEY = <<>>
    /\ last' = [op |-> "resolve_genres", t |-> Arguments(f),
                before |-> _beatport_cache,
                bp_resp |-> bp_resp, fm_resps |-> fm_resps,
                r |-> resolve_genres(_beatport_cache, LASTFM_API_KEY,
                                     _lastfm_warned, Arguments(f), bp_resp,
                                     fm_resps)]
    /\ _beatport_cache' = last'.r.bp.cache
    /\ _lastfm_warned' = last'.r.fm.warned
    /\ UNCHANGED <<LASTFM_API_KEY, use_beatport, recency, structure_warned>>

ResolveAny ==
    \E f \in Files :
        \E bp_resp \in BeatportResponses \cup {NoResponse} :
            \E fm_resps \in LastfmResponses \cup {NoResponses} :
                Resolve(f, bp_resp, fm_resps)

\* The rest of the loop's turn (cli.py lines 388-430): the result is logged
\* and written, and the loop goes on to the next file.
Continue ==
    /\ last.op # "none"
    /\ last' = [op |-> "none"]
    /\ UNCHANGED <<_beatport_cache, _lastfm_warned, LASTFM_API_KEY,
                   use_beatport, recency, structure_warned>>

Next == ResolveAny \/ Continue

Spec == Init /\ [][Next]_vars

\* ------------------------------------------------------------------------
\* The process with the order of use of the keys: recency is a history
\* variable, the keys of the cache as they stood when the call in progress
\* began, the one read or written longest ago first.
\* ------------------------------------------------------------------------

Without(s, x) == SelectSeq(s, LAMBDA y : y # x)

\* the order after a read or a write of key, of the keys c still holds
Touched(order, key, c) ==
    SelectSeq(Append(Without(order, key), key), LAMBDA k : k \in Keys(c))

\* The rest of the loop's turn; the call that returned has read (a hit) or
\* written (a miss) its key, if it looked into the cache at all.
ContinueTouching ==
    /\ last.op = "resolve_genres"
    /\ last' = [op |-> "none"]
    /\ recency' = IF last.t.use_beatport /\ ~last.r.bp.raised
                  THEN Touched(recency, FileKey(last.t), _beatport_cache)
                  ELSE recency
    /\ UNCHANGED <<_beatport_cache, _lastfm_warned, LASTFM_API_KEY,
                   use_beatport, structure_warned>>

LruNext == ResolveAny \/ ContinueTouching

LruSpec == Init /\ [][LruNext]_vars

\* ------------------------------------------------------------------------
\* The process with the memory of the structure warning: structure_warned is
\* a history variable, whether a call that returned before the one in
\* progress printed the warning of lines 204-208.
\* ------------------------------------------------------------------------

\* The rest of the loop's turn; what the call printed is now in the past.
ContinueWarned ==
    /\ last.op = "resolve_genres"
    /\ last' = [op |-> "none"]
    /\ structure_warned' = (structure_warned \/ last.r.bp.warned)
    /\ UNCHANGED <<_beatport_cache, _lastfm_warned, LASTFM_API_KEY,
                   use_beatport, recency>>

WarnNext == ResolveAny \/ ContinueWarned

WarnSpec == Init /\ [][WarnNext]_vars

\* ------------------------------------------------------------------------
\* The process with writes to keys the cache holds: get_beatport_genre
\* writes only after a miss, _BoundedCache.__setitem__ takes any key.
\* ------------------------------------------------------------------------

CacheKeys == {FileKey(f) : f \in Files}

CacheValues == {<<>>, <<<<"H","o","u","s","e">>>>}

\* _beatport_cache[key] = value
SetItem(key, value) ==
    /\ last.op = "none"
    /\ last' = [op |-> "__setitem__", key |-> key, value |-> value,
                before |-> _beatport_cache]
    /\ _beatport_cache' = __setitem__(_beatport_cache, key, value)
    /\ UNCHANGED <<_lastfm_warned, LASTFM_API_KEY, use_beatport, recency, structure_warned>>

SetItemAny == \E key \in CacheKeys : \E value \in CacheValues : SetItem(key, value)

CacheNext == ResolveAny \/ SetItemAny \/ Continue

\* Beatport in use and no Last.fm key: every call looks into the cache
CacheInit == Init /\ use_beatport /\ LASTFM_API_KEY = <<>>

CacheSpec == CacheInit /\ [][CacheNext]_vars

\* ------------------------------------------------------------------------
\* resolve_genres on the classifier's lists alone: no Beatport, no API key
\* ------------------------------------------------------------------------

\* the longest list of the classifier that is tried
MaxMl == 4

\* GENRE_MIN_PROB of config.py, in hundredths: analyze_track gives no label
\* below it
GENRE_MIN_PROB == 5

Probs == {GENRE_MIN_PROB, 9, GENRE_KEEP_PROB, 11, 30}

KeepProbs == {GENRE_KEEP_PROB, 30}

MlLabels ==
    << <<"H","o","u","s","e">>, <<"T","e","c","h","n","o">>,
       <<"T","r","a","n","c","e">>, <<"D","i","s","c","o">>,
       <<"F","u","n","k">>, <<"S","o","u","l">> >>

\* the lists of n labels, the likeliest first (analyzer.py line 114 sorts)
SortedProbs(n) ==
    {p \in [1..n -> Probs] : \A i \in 1..(n - 1) : p[i] >= p[i + 1]}

MlInputs ==
    UNION {{Tuple([i \in 1..n |-> Genre(MlLabels[i], p[i])]) :
               p \in SortedProbs(n)} : n \in 0..MaxMl}

MlInit ==
    /\ _beatport_cache = <<>>
    /\ _lastfm_warned = FALSE
    /\ LASTFM_API_KEY = <<>>
    /\ use_beatport = FALSE
    /\ recency = <<>>
    /\ structure_warned = FALSE
    /\ last \in {[op |-> "ml_genres", ml_genres |-> m, genre_keep_prob |-> k] :
                    m \in MlInputs, k \in KeepProbs}

\* resolve_genres("", "", "", ml_genres, False, genre_keep_prob)
MlArguments ==
    [artist |-> <<>>, artist_clean |-> <<>>, title |-> <<>>,
     ml_genres |-> last.ml_genres, use_beatport |-> FALSE,
     genre_keep_prob |-> last.genre_keep_prob]

ResolveMl ==
    /\ last.op = "ml_genres"
    /\ last' = [op |-> "resolve_genres", t |-> MlArguments,
                before |-> _beatport_cache,
                bp_resp |-> NoResponse, fm_resps |-> NoResponses,
                r |-> resolve_genres(_beatport_cache, LASTFM_API_KEY,
                                     _lastfm_warned, MlArguments, NoResponse,
                                     NoResponses)]
    /\ _beatport_cache' = last'.r.bp.cache
    /\ _lastfm_warned' = last'.r.fm.warned
    /\ UNCHANGED <<LASTFM_API_KEY, use_beatport, recency, structure_warned>>

MlSpec == MlInit /\ [][ResolveMl]_vars

\* ------------------------------------------------------------------------
\* _score_beatport_result on results, artists, titles and mixes of its own
\* ------------------------------------------------------------------------

\* track names and base titles; "" is the base title of a title that is one
\* parenthesized group, and the track name of a result without one
ScoreTitles == {<<"S","t","r","o","b","e">>, <<"G","o">>, <<>>}

\* artists; "" is what parse_filename gives for a name without " - "
\* (tagger.py:37)
ScoreArtists ==
    {<<"D","e","a","d","m","a","u","5">>, <<"A"," ","&"," ","B">>, <<"G","u","y"," ","J">>, <<>>}

\* the artists of a result
ScoreItemArtists ==
    {<<a>> : a \in ScoreArtists} \cup {<<<<"A">>, <<"B">>>>, <<>>}

\* mix names: none, generic ones, remixes with and without a word of more
\* than one letter that is no stop word
ScoreMixes ==
    {<<>>, <<"O","r","i","g","i","n","a","l"," ","M","i","x">>, <<"C","l","u","b"," ","M","i","x">>, <<"G","u","y"," ","J"," ","R","e","m","i","x">>,
     <<"G","u","y"," ","J"," ","D","u","b">>, <<"J"," ","R","e","m","i","x">>, <<"a"," ","r","e","m","i","x">>, <<"E","r","i","c"," ","P","r","y","d","z"," ","R","e","m","i","x">>}

\* the arguments get_beatport_genre passes (lines 215-223): the artist and
\* the base title lowered
ScoreInputs ==
    {[item |-> Item(track_name, mix_name, artists, <<>>),
      artist_lower |-> Lower(artist), base_title_lower |-> Lower(title),
      file_mix_info |-> file_mix_info] :
        track_name \in ScoreTitles, mix_name \in ScoreMixes,
        artists \in ScoreItemArtists, artist \in ScoreArtists,
        title \in ScoreTitles, file_mix_info \in ScoreMixes}

ScoreInit ==
    /\ _beatport_cache = <<>>
    /\ _lastfm_warned = FALSE
    /\ LASTFM_API_KEY = <<>>
    /\ use_beatport = TRUE
    /\ recency = <<>>
    /\ structure_warned = FALSE
    /\ last \in {[op |-> "item", in |-> in] : in \in ScoreInputs}

\* _score_beatport_result(item, artist_lower, base_title_lower, file_mix_info)
Score ==
    /\ last.op = "item"
    /\ last' = [op |-> "_score_beatport_result", in |-> last.in,
                score |-> _score_beatport_result(
                              last.in.item, last.in.artist_lower,
                              last.in.base_title_lower, last.in.file_mix_info)]
    /\ UNCHANGED <<_beatport_cache, _lastfm_warned, LASTFM_API_KEY,
                   use_beatport, recency, structure_warned>>

ScoreSpec == ScoreInit /\ [][Score]_vars

\* ------------------------------------------------------------------------
\* _normalize_mix on mix names of a few words, and on what it returns
\* ------------------------------------------------------------------------

\* the most words of a mix name that is tried
MaxWords == 3

MixWords ==
    {<<"C","l","u","b">>, <<"M","i","x">>, <<"e","d","i","t">>, <<"R","e","m","i","x">>,
     <<"d","u","b">>, <<"O","r","i","g","i","n","a","l">>, <<"G","u","y">>, <<"&">>}

RECURSIVE Join(_)
\* " ".join(ws)
Join(ws) ==
    IF Len(ws) = 0 THEN <<>>
    ELSE IF Len(ws) = 1 THEN ws[1]
    ELSE ws[1] \o <<" ">> \o Join(Tail(ws))

MixNames == UNION {{Join(ws) : ws \in [1..n -> MixWords]} : n \in 1..MaxWords}

\* mix names of the kind the docstring of _is_generic_mix gives, and a remix
ExampleMixes ==
    {<<"E","x","t","e","n","d","e","d"," ","M","i","x">>, <<" ","e","x","t","e","n","d","e","d"," ","c","l","u","b"," ","m","i","x"," ">>, <<"G","u","y"," ","J"," ","R","e","m","i","x">>}

NormInit ==
    /\ _beatport_cache = <<>>
    /\ _lastfm_warned = FALSE
    /\ LASTFM_API_KEY = <<>>
    /\ use_beatport = TRUE
    /\ recency = <<>>
    /\ structure_warned = FALSE
    /\ last \in {[op |-> "mix_str", mix_str |-> s] :
                   s \in MixNames \cup ExampleMixes}

\* _normalize_mix(mix_str), and _normalize_mix of what it returned
Normalize ==
    /\ last.op = "mix_str"
    /\ last' = [op |-> "_normalize_mix", mix_str |-> last.mix_str,
                once |-> _normalize_mix(last.mix_str),
                twice |-> _normalize_mix(_normalize_mix(last.mix_str))]
    /\ UNCHANGED <<_beatport_cache, _lastfm_warned, LASTFM_API_KEY,
                   use_beatport, recency, structure_warned>>

\* _is_generic_mix(mix_str), beside _normalize_mix(mix_str)
IsGeneric ==
    /\ last.op = "mix_str"
    /\ last' = [op |-> "_is_generic_mix", mix_str |-> last.mix_str,
                generic |-> _is_generic_mix(last.mix_str),
                norm |-> _normalize_mix(last.mix_str)]
    /\ UNCHANGED <<_beatport_cache, _lastfm_warned, LASTFM_API_KEY,
                   use_beatport, recency, structure_warned>>

NormNext == Normalize \/ IsGeneric

NormSpec == NormInit /\ [][NormNext]_vars

\* ------------------------------------------------------------------------
\* get_beatport_genre on result lists longer than items[:10]
\* ------------------------------------------------------------------------

\* the length of the result lists that are tried
MaxItems == 11

\* the track looked up: Deadmau5 - Strobe
BestArtist == <<"D","e","a","d","m","a","u","5">>

BestTitle == <<"S","t","r","o","b","e">>

\* the genre of the result at place i names the place
PlaceName(i) == <<LowerLetters[i]>>

\* results for the place i: the track by its artist, the track by another
\* artist, and another track
PlacedItems(i) ==
    <<Item(<<"S","t","r","o","b","e">>, <<"O","r","i","g","i","n","a","l"," ","M","i","x">>, <<<<"D","e","a","d","m","a","u","5">>>>, <<Entry(PlaceName(i))>>),
      Item(<<"S","t","r","o","b","e">>, <<"O","r","i","g","i","n","a","l"," ","M","i","x">>, <<<<"G","u","y"," ","J">>>>, <<Entry(PlaceName(i))>>),
      Item(<<"G","o">>, <<"O","r","i","g","i","n","a","l"," ","M","i","x">>, <<<<"G","u","y"," ","J">>>>, <<Entry(PlaceName(i))>>)>>

\* the places where the result varies; elsewhere it is the other track
VariedPlaces == {1, 2, BEATPORT_RESULTS, BEATPORT_RESULTS + 1}

LongLists ==
    {Tuple([i \in 1..MaxItems |->
               PlacedItems(i)[IF i \in VariedPlaces THEN kind[i] ELSE 3]]) :
        kind \in [VariedPlaces -> 1..3]}

BestInit ==
    /\ _beatport_cache = <<>>
    /\ _lastfm_warned = FALSE
    /\ LASTFM_API_KEY = <<>>
    /\ use_beatport = TRUE
    /\ recency = <<>>
    /\ structure_warned = FALSE
    /\ last \in {[op |-> "items", items |-> items] : items \in LongLists}

\* get_beatport_genre("Deadmau5", "Strobe"), the page holding last.items
BestLookup ==
    /\ last.op = "items"
    /\ last' = [op |-> "get_beatport_genre", items |-> last.items,
                bp |-> get_beatport_genre(_beatport_cache, BestArtist,
                                          BestTitle,
                                          BpResp("items", last.items))]
    /\ _beatport_cache' = last'.bp.cache
    /\ UNCHANGED <<_lastfm_warned, LASTFM_API_KEY, use_beatport, recency,
                   structure_warned>>

BestSpec == BestInit /\ [][BestLookup]_vars

\* ------------------------------------------------------------------------
\* _extract_mix_info on titles put together from a few pieces
\* ------------------------------------------------------------------------

\* the most pieces of a title that is tried
MaxTokens == 4

\* a letter, a space, a group without and one with a mix keyword, and lone
\* parentheses
TitleTokens ==
    {<<"a">>, <<" ">>, <<"(","x",")">>, <<"(","M","i","x",")">>, <<"(">>, <<")">>}

RECURSIVE Concat(_)
\* "".join(ts)
Concat(ts) == IF Len(ts) = 0 THEN <<>> ELSE ts[1] \o Concat(Tail(ts))

Titles ==
    UNION {{Concat(ts) : ts \in [1..n -> TitleTokens]} : n \in 1..MaxTokens}

ExtractInit ==
    /\ _beatport_cache = <<>>
    /\ _lastfm_warned = FALSE
    /\ LASTFM_API_KEY = <<>>
    /\ use_beatport = TRUE
    /\ recency = <<>>
    /\ structure_warned = FALSE
    /\ last \in {[op |-> "title", title |-> t] : t \in Titles}

\* _extract_mix_info(title)
Extract ==
    /\ last.op = "title"
    /\ last' = [op |-> "_extract_mix_info", title |-> last.title,
                info |-> _extract_mix_info(last.title)]
    /\ UNCHANGED <<_beatport_cache, _lastfm_warned, LASTFM_API_KEY,
                   use_beatport, recency, structure_warned>>

ExtractSpec == ExtractInit /\ [][Extract]_vars

\* ------------------------------------------------------------------------
\* get_beatport_genre for a title that names a remix
\* ------------------------------------------------------------------------

\* the most results of a page that is tried
MaxCandidates == 2

\* the artist of the file: one name, and five of them
RemixArtists == {<<"D","e","a","d","m","a","u","5">>, <<"A",","," ","B",","," ","C",","," ","D"," ","&"," ","E">>}

\* the artists of a result
RemixItemArtists ==
    {<<<<"D","e","a","d","m","a","u","5">>>>, <<<<"A">>, <<"B">>, <<"C">>, <<"D">>, <<"E">>>>}

RemixTitles == {<<"S","t","r","o","b","e"," ","(","G","u","y"," ","J"," ","R","e","m","i","x",")">>, <<"S","t","r","o","b","e"," ","(","E","r","i","c"," ","P","r","y","d","z"," ","R","e","m","i","x",")">>}

\* the mix names of a result: a generic one, the remix of the first title
\* and another mix by its remixer, the remix of the second title, and a
\* remix whose name holds no word that _remix_words keeps
RemixMixes ==
    {<<"O","r","i","g","i","n","a","l"," ","M","i","x">>, <<"G","u","y"," ","J"," ","R","e","m","i","x">>, <<"G","u","y"," ","J"," ","D","u","b">>, <<"E","r","i","c"," ","P","r","y","d","z"," ","R","e","m","i","x">>, <<"a"," ","r","e","m","i","x">>}

\* the result lists: the track in some mix by some artists at each place,
\* its genre naming the place
RemixLists ==
    UNION {{Tuple([i \in 1..n |->
                      Item(<<"S","t","r","o","b","e">>, mix[i], arts[i], <<Entry(PlaceName(i))>>)]) :
               mix \in [1..n -> RemixMixes], arts \in [1..n -> RemixItemArtists]} :
           n \in 1..MaxCandidates}

RemixInit ==
    /\ _beatport_cache = <<>>
    /\ _lastfm_warned = FALSE
    /\ LASTFM_API_KEY = <<>>
    /\ use_beatport = TRUE
    /\ recency = <<>>
    /\ structure_warned = FALSE
    /\ last \in {[op |-> "items", artist |-> artist, title |-> title,
                  items |-> items] :
                    artist \in RemixArtists, title \in RemixTitles,
                    items \in RemixLists}

\* get_beatport_genre(last.artist, last.title), the page holding last.items
RemixLookup ==
    /\ last.op = "items"
    /\ last' = [op |-> "get_beatport_genre", artist |-> last.artist,
                title |-> last.title, items |-> last.items,
                bp |-> get_beatport_genre(_beatport_cache, last.artist,
                                          last.title,
                                          BpResp("items", last.items))]
    /\ _beatport_cache' = last'.bp.cache
    /\ UNCHANGED <<_lastfm_warned, LASTFM_API_KEY, use_beatport, recency,
                   structure_warned>>

RemixSpec == RemixInit /\ [][RemixLookup]_vars

\* ------------------------------------------------------------------------
\* Properties
\* ------------------------------------------------------------------------

\* a call of resolve_genres has just returned
Called == last.op = "resolve_genres"

\* f"{artist_clean or artist}|{title}" case-folded
FoldedKey(t) == Lower(BeatportArtist(t) \o <<"|">> \o t.title)

\* the request to Beatport failed: in transport, by timeout, for want of
\* the script block, in json.loads, in the navigation or in the scoring
BeatportFailed(resp) ==
    \/ resp.kind \in {"timeout", "curl_failed", "no_script", "bad_json",
                      "bad_path"}
    \/ /\ resp.kind = "items"
       /\ \E i \in DOMAIN Take(resp.items, BEATPORT_RESULTS) : ~resp.items[i].ok

\* the request to Last.fm failed: in transport, by timeout or in parsing
LastfmFailed(resp) ==
    \/ resp.kind \in {"timeout", "curl_failed", "bad_json"}
    \/ /\ resp.kind = "tags"
       /\ \E i \in DOMAIN Take(resp.tags, 3) : ~resp.tags[i].ok

\* C1: whenever resolve_genres is called with use_beatport and
\* get_beatport_genre gives a non-empty list, resolve_genres returns that
\* list with the source "beatport", whatever Last.fm and the classifier gave.
C1_BeatportFirst ==
    (Called /\ last.t.use_beatport /\ last.r.bp.ret # <<>>)
        => /\ last.r.genres = last.r.bp.ret
           /\ last.r.source = "beatport"

\* Beatport, Last.fm and the classifier all gave genres; Beatport's won
C1_Witness ==
    /\ Called /\ last.t.use_beatport
    /\ last.r.bp.ret # <<>> /\ last.r.fm.ret # <<>> /\ last.r.ml_list # <<>>
    /\ last.r.fm.ret # last.r.bp.ret
    /\ last.r.source = "beatport"

\* C2: whatever the requests come to, resolve_genres raises nothing and its
\* source is "beatport", "lastfm+ml" or "ml"; a Beatport request that failed
\* gives no Beatport genres, and Last.fm gives none without an API key or
\* when all its requests failed.
C2_NeverRaises ==
    Called
        => /\ ~last.r.raised
           /\ last.r.source \in {"beatport", "lastfm+ml", "ml"}
           /\ BeatportFailed(last.bp_resp) => last.r.bp.ret = <<>>
           /\ (\/ LASTFM_API_KEY = <<>>
               \/ \A i \in DOMAIN last.fm_resps : LastfmFailed(last.fm_resps[i]))
                  => last.r.fm.ret = <<>>

\* the Beatport request timed out, the first Last.fm answer was no JSON and
\* the second held a tag without a count: the classifier's labels are left
C2_Witness ==
    /\ Called
    /\ last.bp_resp.kind = "timeout"
    /\ last.fm_resps[1].kind = "bad_json"
    /\ last.fm_resps[2].kind = "tags"
    /\ Len(last.r.fm.requests) = 2
    /\ last.r.source = "ml" /\ last.r.genres # <<>>

\* C3: when Beatport and Last.fm both give nothing, resolve_genres returns
\* ml_list with the source "ml", and so the empty list when no label of the
\* classifier reaches genre_keep_prob.
C3_MlOnly ==
    (Called /\ last.r.bp.ret = <<>> /\ last.r.fm.ret = <<>>)
        => /\ last.r.genres = last.r.ml_list
           /\ last.r.source = "ml"
           /\ (\A i \in DOMAIN last.t.ml_genres :
                   last.t.ml_genres[i].prob < last.t.genre_keep_prob)
                  => last.r.genres = <<>>

\* both sources were asked and gave nothing, and the classifier had labels
\* none of which reached the threshold
C3_Witness ==
    /\ Called
    /\ last.bp_resp.kind = "items" /\ last.r.bp.ret = <<>>
    /\ last.fm_resps[1].kind = "tags" /\ last.r.fm.ret = <<>>
    /\ last.t.ml_genres # <<>>
    /\ last.r.genres = <<>> /\ last.r.source = "ml"

\* C4 as the specification states it: resolve_genres returns at most 4
\* genres, whichever source they come from.
C4_AtMostFour == Called => Len(last.r.genres) <= 4

\* C4: resolve_genres returns at most 6 genres (3 tags of Last.fm and 3
\* labels of the classifier), and at most 3 from Beatport or from the
\* classifier alone; its callers cut the list to 4.
C4_AtMostSix ==
    Called
        => /\ Len(last.r.genres) <= 6
           /\ last.r.source \in {"beatport", "ml"} => Len(last.r.genres) <= 3

\* three tags and three labels, none of them twice
C4_Witness ==
    /\ Called
    /\ last.r.source = "lastfm+ml"
    /\ Len(last.r.fm.ret) = 3 /\ Len(last.r.ml_list) = 3
    /\ Len(last.r.genres) = 6

\* the labels of ml that the merge appends to fm: those equal, letter case
\* apart, to no tag of fm and to no earlier label of ml
NewLabels(fm, ml) ==
    {i \in DOMAIN ml :
        /\ \A k \in DOMAIN fm : Lower(fm[k]) # Lower(ml[i])
        /\ \A j \in 1..(i - 1) : Lower(ml[j]) # Lower(ml[i])}

\* C5: when Beatport gives nothing and Last.fm gives tags, resolve_genres
\* returns with the source "lastfm+ml" the tags in their order, followed in
\* the order of ml_list by exactly the labels of ml_list not yet in the list
\* (letter case apart).
C5_Merge ==
    (Called /\ last.r.bp.ret = <<>> /\ last.r.fm.ret # <<>>)
        => /\ last.r.source = "lastfm+ml"
           /\ Len(last.r.genres)
                  = Len(last.r.fm.ret)
                    + Cardinality(NewLabels(last.r.fm.ret, last.r.ml_list))
           /\ SubSeq(last.r.genres, 1, Len(last.r.fm.ret)) = last.r.fm.ret
           /\ \A i \in NewLabels(last.r.fm.ret, last.r.ml_list) :
                  last.r.genres[
                      Len(last.r.fm.ret)
                      + Cardinality({j \in NewLabels(last.r.fm.ret,
                                                     last.r.ml_list) : j <= i})]
                      = last.r.ml_list[i]

\* a label that differs from a tag in letter case only was left out, and
\* another label was appended
C5_Witness ==
    /\ Called
    /\ last.r.source = "lastfm+ml"
    /\ \E i \in DOMAIN last.r.ml_list : \E k \in DOMAIN last.r.fm.ret :
           /\ last.r.ml_list[i] # last.r.fm.ret[k]
           /\ Lower(last.r.ml_list[i]) = Lower(last.r.fm.ret[k])
           /\ \A n \in DOMAIN last.r.genres : last.r.genres[n] # last.r.ml_list[i]
    /\ Len(last.r.genres) = Len(last.r.fm.ret) + 1
    /\ Len(last.r.ml_list) = 2

\* C6: for a list of the classifier sorted by falling probability, ml_list
\* is the labels of probability >= genre_keep_prob in the order of the list,
\* cut to the first 3 of them; a probability equal to genre_keep_prob is
\* kept.
C6_MlList ==
    Called
        => last.r.ml_list
               = Labels(Take(SelectSeq(last.t.ml_genres,
                                       LAMBDA g : g.prob >= last.t.genre_keep_prob),
                             3))

\* four labels reach the threshold, the third exactly: three are kept
C6_Witness ==
    /\ Called
    /\ Len(last.t.ml_genres) = 4
    /\ last.t.ml_genres[3].prob = last.t.genre_keep_prob
    /\ last.t.ml_genres[4].prob = last.t.genre_keep_prob
    /\ Len(last.r.ml_list) = 3
    /\ last.r.ml_list[3] = last.t.ml_genres[3].label

\* C7: the cache never holds more than _BEATPORT_CACHE_MAX entries, and a
\* write to a key it holds changes neither its size nor its keys.
C7_Capacity ==
    /\ Len(_beatport_cache) <= _BEATPORT_CACHE_MAX
    /\ (last.op = "__setitem__" /\ last.key \in Keys(last.before))
           => /\ Len(_beatport_cache) = Len(last.before)
              /\ Keys(_beatport_cache) = Keys(last.before)

\* the oldest key of a full cache was written again and is now the newest
C7_Witness ==
    /\ last.op = "__setitem__"
    /\ Len(last.before) = _BEATPORT_CACHE_MAX
    /\ last.before[1].key = last.key
    /\ _beatport_cache[Len(_beatport_cache)].key = last.key
    /\ _beatport_cache[Len(_beatport_cache)].value # last.before[1].value

\* C8: a miss on a full cache evicts exactly one key, the one read or
\* written longest ago, a hit of get_beatport_genre being a read.
C8_EvictsLeastRecentlyTouched ==
    (/\ Called /\ last.t.use_beatport
     /\ ~last.r.bp.hit /\ ~last.r.bp.raised
     /\ Len(last.before) = _BEATPORT_CACHE_MAX)
        => Keys(last.before) \ Keys(_beatport_cache) = {Head(recency)}

\* C9: a call whose case-folded key the cache holds returns the cached
\* value, the empty list included, sends no request and leaves the cache as
\* it was; every call leaves its entry under the case-folded key, so that
\* calls differing in letter case only share it.
C9_CacheHit ==
    (Called /\ last.t.use_beatport)
        => /\ FoldedKey(last.t) \in Keys(_beatport_cache)
           /\ FoldedKey(last.t) \in Keys(last.before)
                  => /\ last.r.bp.ret
                            = __getitem__(last.before, FoldedKey(last.t))
                     /\ last.r.bp.requests = <<>>
                     /\ _beatport_cache = last.before

\* DEADMAU5 - strobe found the empty list cached under deadmau5|strobe
C9_Witness ==
    /\ Called /\ last.t.use_beatport
    /\ last.t.artist # Lower(last.t.artist)
    /\ last.t.title = Lower(last.t.title)
    /\ FoldedKey(last.t) \in Keys(last.before)
    /\ last.r.bp.hit
    /\ last.r.bp.ret = <<>>
    /\ last.r.bp.requests = <<>>

\* C10: when get_beatport_genre returns, by whichever path, the cache holds
\* under the call's key the value returned, which has at most 3 genres.
C10_CachePopulated ==
    (Called /\ last.t.use_beatport /\ ~last.r.bp.raised)
        => /\ FoldedKey(last.t) \in Keys(_beatport_cache)
           /\ __getitem__(_beatport_cache, FoldedKey(last.t)) = last.r.bp.ret
           /\ Len(last.r.bp.ret) <= 3

\* the request timed out and the empty list was cached for the key
C10_Witness ==
    /\ Called /\ last.t.use_beatport
    /\ last.bp_resp.kind = "timeout"
    /\ FoldedKey(last.t) \notin Keys(last.before)
    /\ FoldedKey(last.t) \in Keys(_beatport_cache)
    /\ __getitem__(_beatport_cache, FoldedKey(last.t)) = <<>>
    /\ last.r.bp.ret = <<>>

\* the title of t asks for a specific mix
Specific(t) ==
    /\ _extract_mix_info(t.title).mix_info # <<>>
    /\ ~_is_generic_mix(_extract_mix_info(t.title).mix_info)

\* the score of items[i] for the call of arguments t
ScoreOf(t, items, i) ==
    _score_beatport_result(items[i], Lower(BeatportArtist(t)),
                           Lower(_extract_mix_info(t.title).base_title),
                           _extract_mix_info(t.title).mix_info)

\* the non-empty names of the genre entries, in their order
GenreNames(entries) ==
    Labels(SelectSeq([i \in DOMAIN entries |-> [label |-> entries[i].genre_name]],
                     LAMBDA g : g.label # <<>>))

\* Beatport answered the call with a list of well-formed results
Answered ==
    /\ Called /\ last.t.use_beatport
    /\ last.bp_resp.kind = "items" /\ last.bp_resp.items # <<>>
    /\ \A i \in DOMAIN last.bp_resp.items :
           /\ last.bp_resp.items[i].ok
           /\ \A k \in DOMAIN last.bp_resp.items[i].genre :
                  last.bp_resp.items[i].genre[k].ok

\* C11: when the title asks for a specific mix and every scored result scores
\* below 10, get_beatport_genre returns [] and caches []; when the title
\* asks for none or for a generic one, the genres of the best result are
\* returned whatever its score, a negative one included.
C11_Rejection ==
    Answered
        => /\ (/\ Specific(last.t)
               /\ \A i \in DOMAIN Take(last.bp_resp.items, BEATPORT_RESULTS) :
                      ScoreOf(last.t, last.bp_resp.items, i) < 10)
                  => /\ last.r.bp.ret = <<>>
                     /\ __getitem__(_beatport_cache, FoldedKey(last.t)) = <<>>
           /\ ~Specific(last.t)
                  => \E i \in DOMAIN Take(last.bp_resp.items, BEATPORT_RESULTS) :
                         /\ \A j \in DOMAIN Take(last.bp_resp.items,
                                                 BEATPORT_RESULTS) :
                                ScoreOf(last.t, last.bp_resp.items, j)
                                    <= ScoreOf(last.t, last.bp_resp.items, i)
                         /\ last.r.bp.ret
                                = Take(GenreNames(last.bp_resp.items[i].genre), 3)

\* a title asking for a specific remix got results with genres, all of them
\* scoring below 10, and so nothing
C11_Witness ==
    /\ Answered
    /\ Specific(last.t)
    /\ \A i \in DOMAIN last.bp_resp.items :
           /\ ScoreOf(last.t, last.bp_resp.items, i) < 10
           /\ GenreNames(last.bp_resp.items[i].genre) # <<>>
    /\ last.r.bp.ret = <<>>
    /\ __getitem__(_beatport_cache, FoldedKey(last.t)) = <<>>

\* a title with a generic mix got the genres of a result scoring below 0
C11_NegativeBest ==
    /\ Answered
    /\ ~Specific(last.t)
    /\ \A i \in DOMAIN last.bp_resp.items :
           ScoreOf(last.t, last.bp_resp.items, i) < 0
    /\ last.r.bp.ret # <<>>

\* _score_beatport_result has just returned
ScoreReturned == last.op = "_score_beatport_result"

\* the result is the track asked for by its one artist, in its original
\* mix, and the file names its artist and no mix
PlainMatch ==
    /\ ScoreReturned
    /\ Lower(last.in.item.track_name) = last.in.base_title_lower
    /\ last.in.artist_lower # <<>>
    /\ Len(last.in.item.artists) = 1
    /\ Lower(last.in.item.artists[1]) = last.in.artist_lower
    /\ \A i \in DOMAIN last.in.artist_lower :
           last.in.artist_lower[i] \notin {"&", ","}
    /\ last.in.item.mix_name = <<"O","r","i","g","i","n","a","l"," ","M","i","x">>
    /\ last.in.file_mix_info = <<>>

\* C12 as the specification states it: such a result scores exactly 18
\* (title +10, artist +5, generic mix with none asked for +3).
C12_Score18 == PlainMatch => last.score = 18

\* C12: such a result scores exactly 20: title +10, artist +5, the one part
\* of the artist +2, generic mix with none asked for +3.
C12_Score20 == PlainMatch => last.score = 20

\* Strobe (Original Mix) by Deadmau5 for the file Deadmau5 - Strobe
C12_Witness ==
    /\ PlainMatch
    /\ last.in.item.track_name = <<"S","t","r","o","b","e">>
    /\ last.in.item.artists = <<<<"D","e","a","d","m","a","u","5">>>>
    /\ last.score = 20

\* what the score owes to the comparison of the mixes (lines 130-141): the
\* score less the signals of the title and of the artist and less the
\* penalty of lines 143-144
MixContribution ==
    last.score
    - TitleScore(last.in.base_title_lower, Lower(last.in.item.track_name))
    - ArtistScore(last.in.artist_lower,
                  Tuple([i \in DOMAIN last.in.item.artists |->
                            Lower(last.in.item.artists[i])]))
    - (IF /\ ~_is_generic_mix(last.in.file_mix_info)
          /\ _is_generic_mix(last.in.item.mix_name)
       THEN -15 ELSE 0)

\* the file names a mix, and its normalized mix and the result's are
\* both non-empty
BothMixes ==
    /\ ScoreReturned
    /\ last.in.file_mix_info # <<>>
    /\ _normalize_mix(last.in.file_mix_info) # <<>>
    /\ _normalize_mix(last.in.item.mix_name) # <<>>

CommonWords ==
    _remix_words(last.in.file_mix_info) \cap _remix_words(last.in.item.mix_name)

C13_Idempotent == last.op = "_normalize_mix" => last.twice = last.once

\* C14: without an API key every call of get_lastfm_genre returns [] and
\* sends no request, and it prints the warning if and only if no call before
\* it has set _lastfm_warned, which stays set: the warning is printed once,
\* by the first call.
C14_WarnedOnce ==
    [][/\ _lastfm_warned => _lastfm_warned'
       /\ (LASTFM_API_KEY = <<>> /\ last'.op = "resolve_genres")
              => /\ last'.r.fm.ret = <<>>
                 /\ last'.r.fm.requests = <<>>
                 /\ last'.r.fm.printed <=> ~_lastfm_warned
                 /\ _lastfm_warned']_vars

\* a later call without an API key: nothing returned, nothing sent, nothing
\* printed
C14_Witness ==
    /\ Called
    /\ LASTFM_API_KEY = <<>>
    /\ _beatport_cache # <<>> /\ last.before # <<>>
    /\ last.r.fm.ret = <<>> /\ last.r.fm.requests = <<>>
    /\ ~last.r.fm.printed
    /\ _lastfm_warned

\* the tags of count above LASTFM_MIN_COUNT, title-cased, in their order,
\* the first three of them
FilteredThenCut(tags) ==
    Take(Labels(SelectSeq([i \in DOMAIN tags |->
                              [label |-> Title(tags[i].name),
                               count |-> tags[i].count]],
                          LAMBDA x : x.count > LASTFM_MIN_COUNT)),
         3)

\* C15: when the last request of get_lastfm_genre is answered with a list of
\* tags, the result is the tags of count above 20, title-cased, in the
\* service's order, cut to the first 3 of those; a tag of low count among
\* the first three takes no place from a later one.
C15_FilterThenCut ==
    (/\ Called /\ LASTFM_API_KEY # <<>>
     /\ last.t.artist # <<>> /\ last.t.artist_clean # <<>>
     /\ last.r.fm.requests # <<>>
     /\ last.fm_resps[Len(last.r.fm.requests)].kind = "tags"
     /\ \A i \in DOMAIN last.fm_resps[Len(last.r.fm.requests)].tags :
            last.fm_resps[Len(last.r.fm.requests)].tags[i].ok)
        => last.r.fm.ret
               = FilteredThenCut(last.fm_resps[Len(last.r.fm.requests)].tags)

\* C16: over the calls of one process the structure warning is printed at
\* most once, and a call that finds no script block, no JSON in it or not
\* the expected path in it prints the warning unless a call before it has.
C16_StructureWarnedOnce ==
    Called
        => /\ last.r.bp.warned => ~structure_warned
           /\ last.bp_resp.kind \in {"no_script", "bad_json", "bad_path"}
                  => (last.r.bp.warned \/ structure_warned)

\* C17: within one call of resolve_genres Beatport gets at most one request,
\* and Last.fm gets no two requests for the same artist: the second request
\* is for another variant of the artist only.
C17_NoRetries ==
    Called
        => /\ Len(last.r.bp.requests) <= 1
           /\ \A i, j \in DOMAIN last.r.fm.requests :
                  i # j => last.r.fm.requests[i] # last.r.fm.requests[j]

PlaceScore(i) ==
    _score_beatport_result(last.items[i], Lower(BestArtist), Lower(BestTitle),
                           <<>>)

\* C19: the result whose genres are returned is one of the first 10, scores
\* no less than any of the first 10 and more than every one before it; a
\* result after the tenth is never the one.
C19_BestOfFirstTen ==
    last.op = "get_beatport_genre"
        => \E i \in 1..BEATPORT_RESULTS :
               /\ i <= Len(last.items)
               /\ \A j \in 1..BEATPORT_RESULTS :
                      j <= Len(last.items) => PlaceScore(j) <= PlaceScore(i)
               /\ \A j \in 1..(i - 1) : PlaceScore(j) < PlaceScore(i)
               /\ last.bp.ret = <<PlaceName(i)>>

\* the best result of all is the eleventh, the second and the tenth tie for
\* the best of the first ten: the second is taken
C19_Witness ==
    /\ last.op = "get_beatport_genre"
    /\ Len(last.items) > BEATPORT_RESULTS
    /\ PlaceScore(BEATPORT_RESULTS + 1) > PlaceScore(2)
    /\ PlaceScore(BEATPORT_RESULTS) = PlaceScore(2)
    /\ PlaceScore(1) < PlaceScore(2)
    /\ last.bp.ret = <<PlaceName(2)>>

\* C21 as stated: a mix name is generic exactly when its normalized form is
\* in the tuple of generic names
C21_GenericNormalized ==
    last.op = "_is_generic_mix"
        => (last.generic <=> last.norm \in GenericMixes)

\* C21: a mix name is generic exactly when the name itself, lowercased and
\* stripped (not normalized), is one of the generic names; "Extended Mix" is
\* generic, "Guy J Remix" is not; a generic name normalizes to "" or "club".
C21_GenericLowered ==
    last.op = "_is_generic_mix"
        => /\ last.generic
                <=> \E g \in GenericMixes : Lower(Strip(last.mix_str)) = g
           /\ last.mix_str = <<"E","x","t","e","n","d","e","d"," ","M","i","x">> => last.generic
           /\ last.mix_str = <<"G","u","y"," ","J"," ","R","e","m","i","x">> => ~last.generic
           /\ last.generic => last.norm \in {<<>>, <<"c","l","u","b">>}

\* "Club Mix" is generic and its normalized form, "club", is no generic name
C21_Witness ==
    /\ last.op = "_is_generic_mix"
    /\ last.mix_str = <<"C","l","u","b"," ","M","i","x">>
    /\ last.generic
    /\ last.norm = <<"c","l","u","b">>
    /\ last.norm \notin GenericMixes

\* s holds a parenthesized group: a "(" with a ")" after it
HasGroup(s) ==
    \E i \in 1..Len(s) : \E j \in (i + 1)..Len(s) : s[i] = "(" /\ s[j] = ")"

\* s holds a parenthesized group, closed by the first ")" after its "(",
\* with a mix keyword in it
HasMixGroup(s) ==
    \E i \in 1..Len(s) : \E j \in (i + 1)..Len(s) :
        /\ s[i] = "("
        /\ s[j] = ")"
        /\ \A k \in (i + 1)..(j - 1) : s[k] # ")"
        /\ \E m \in DOMAIN MixKeywords :
               Contains(Lower(SubSeq(s, i + 1, j - 1)), MixKeywords[m])

\* s neither starts nor ends with whitespace, and holds no two whitespace
\* characters in a row
Trimmed(s) == s = <<>> \/ (~IsSpace(s[1]) /\ ~IsSpace(s[Len(s)]))

SingleSpaced(s) == \A i \in 1..(Len(s) - 1) : ~(IsSpace(s[i]) /\ IsSpace(s[i + 1]))

\* C22: the base title holds no parenthesized group, is trimmed and holds no
\* run of two or more whitespace characters; the mix annotation is "" when no
\* parenthesized group of the title holds a mix keyword.
C22_BaseTitleShape ==
    last.op = "_extract_mix_info"
        => /\ ~HasGroup(last.info.base_title)
           /\ Trimmed(last.info.base_title)
           /\ SingleSpaced(last.info.base_title)
           /\ ~HasMixGroup(last.title) => last.info.mix_info = <<>>

\* what of C22 the titles tried do not refute: no group is left, the base
\* title is trimmed, and the mix annotation is "" without a mix group
C22_GroupsRemoved ==
    last.op = "_extract_mix_info"
        => /\ ~HasGroup(last.info.base_title)
           /\ Trimmed(last.info.base_title)
           /\ ~HasMixGroup(last.title) => last.info.mix_info = <<>>

\* two adjacent groups between two letters leave two spaces
C22_AdjacentGroups ==
    /\ last.op = "_extract_mix_info"
    /\ last.title = <<"a","(","x",")","(","x",")","a">>
    /\ last.info.base_title = <<"a"," "," ","a">>

\* the mix name of a result is the remix the file names: the normalized
\* names are equal, or the two share a remix word
SameRemix(file_mix_info, mix_name) ==
    \/ _normalize_mix(file_mix_info) = _normalize_mix(mix_name)
    \/ _remix_words(file_mix_info) \cap _remix_words(mix_name) # {}

\* the mix annotation of the title looked up
FileMix == _extract_mix_info(last.title).mix_info

\* C23: when the title names a specific remix and genres are returned, they
\* are those of a result that is no generic mix and whose mix is the remix of
\* the title (equal when normalized, or sharing a remix word).
C23_NoWrongRemix ==
    (/\ last.op = "get_beatport_genre"
     /\ ~_is_generic_mix(FileMix)
     /\ last.bp.ret # <<>>)
        => \E i \in DOMAIN last.items :
               /\ last.bp.ret = <<PlaceName(i)>>
               /\ ~_is_generic_mix(last.items[i].mix_name)
               /\ SameRemix(FileMix, last.items[i].mix_name)

\* the genre of the only result, "a remix", is returned for the Guy J Remix
C23_OtherRemixTaken ==
    /\ last.op = "get_beatport_genre"
    /\ last.title = <<"S","t","r","o","b","e"," ","(","G","u","y"," ","J"," ","R","e","m","i","x",")">>
    /\ Len(last.items) = 1
    /\ last.items[1].mix_name = <<"a"," ","r","e","m","i","x">>
    /\ last.bp.ret = <<PlaceName(1)>>

\* the genre of the only result, the Original Mix, is returned for the
\* Guy J Remix of a track by five artists
C23_GenericTaken ==
    /\ last.op = "get_beatport_genre"
    /\ last.title = <<"S","t","r","o","b","e"," ","(","G","u","y"," ","J"," ","R","e","m","i","x",")">>
    /\ Len(last.items) = 1
    /\ last.items[1].mix_name = <<"O","r","i","g","i","n","a","l"," ","M","i","x">>
    /\ last.bp.ret = <<PlaceName(1)>>

\* what the title and the artist add to the score last.score
TitlePart ==
    last.score
        - ArtistScore(last.in.artist_lower,
                      Tuple([i \in DOMAIN last.in.item.artists |->
                                Lower(last.in.item.artists[i])]))
        - MixScore(last.in.file_mix_info, last.in.item.mix_name)

ArtistPart ==
    last.score
        - TitleScore(last.in.base_title_lower, Lower(last.in.item.track_name))
        - MixScore(last.in.file_mix_info, last.in.item.mix_name)

\* C24: the title adds 10 to the score only when the base title and the
\* track name of the result are both non-empty, and the artist adds nothing
\* when the artist searched for is "".
C24_NoEmptyMatch ==
    last.op = "_score_beatport_result"
        => /\ TitlePart = 10 => /\ last.in.base_title_lower # <<>>
                                /\ last.in.item.track_name # <<>>
           /\ last.in.artist_lower = <<>> => ArtistPart = 0

\* no artist, a result by Deadmau5 of another track in a remix: -10 for the
\* title and 5 for the artist
C24_EmptyArtistMatches ==
    /\ last.op = "_score_beatport_result"
    /\ last.in.artist_lower = <<>>
    /\ last.in.item.artists = <<<<"D","e","a","d","m","a","u","5">>>>
    /\ last.in.base_title_lower = <<"s","t","r","o","b","e">>
    /\ last.in.item.track_name = <<"G","o">>
    /\ last.in.file_mix_info = <<>>
    /\ last.in.item.mix_name = <<"G","u","y"," ","J"," ","R","e","m","i","x">>
    /\ last.score = -5

\* no base title, a result named Strobe without artists in a remix: 10 for
\* the title
C24_EmptyTitleMatches ==
    /\ last.op = "_score_beatport_result"
    /\ last.in.base_title_lower = <<>>
    /\ last.in.item.track_name = <<"S","t","r","o","b","e">>
    /\ last.in.item.artists = <<>>
    /\ last.in.file_mix_info = <<>>
    /\ last.in.item.mix_name = <<"G","u","y"," ","J"," ","R","e","m","i","x">>
    /\ last.score = 10

=============================================================================
